---- MODULE Spec2Model ----
(***************************************************************************)
(* Vault synchronisation of SidebarMarkdownNotesProvider                   *)
(* (src/unnamed/part_000, the provider imported by src/src/extension.ts as *)
(* './webviewProvider').                                                   *)
(*                                                                         *)
(* One provider, its webview (the presentation layer), the file system     *)
(* with one vault file notes_<hash>.json per vault directory, the          *)
(* fs.watch handles the provider opens, the 2000 ms callbacks scheduled by *)
(* _getWorkspaceHash, and other processes writing the vault files.         *)
(* SpecIdentity is _getWorkspaceHash alone over all short authorities,     *)
(* SpecDispose adds the disposal of the panel, SpecSessions a second       *)
(* editor session that runs the same provider on the same vault file.      *)
(***************************************************************************)
EXTENDS Integers, Sequences, FiniteSets, TLC

(* ------------------------------ bounds --------------------------------- *)
MaxTimers == 1        \* delayed callbacks pending at the same time
MaxEvents == 2        \* fs.watch events pending for one directory
MaxDebug == 1         \* diagnostic blocks appended to one page
MaxInitPending == 1   \* 'init' messages the webview still has to send
MaxAuthority == 3     \* characters of the authority of a workspace uri

(* --------------------------- directories ------------------------------- *)
HomeVault == "~/.sidebar-markdown-notes"
CustomVault == "/custom-vault"
VaultPaths == {"", CustomVault}          \* values of the vaultPath setting
Dirs == {HomeVault, CustomVault}
NoDir == "-"

(* ------------------------ JavaScript values ---------------------------- *)
\* A value is a record [k, id, dbg]: k = "notes" is a state object with a
\* non-empty pages array whose current page is text number id followed by
\* dbg diagnostic blocks; "nopages" a state object without pages;
\* "undefined" the JavaScript value undefined.
Undefined == [k |-> "undefined", id |-> 0, dbg |-> 0]
NoPages == [k |-> "nopages", id |-> 0, dbg |-> 0]
Notes(i, n) == [k |-> "notes", id |-> i, dbg |-> n]

\* A string is a record [fmt, v]: the JSON text of value v pretty-printed
\* with indent 2 ("pretty2") or compact ("compact"), or a text that is not
\* JSON ("text").  JsUndefined is undefined where a string is expected, NoFile
\* the absence of the file.
JsUndefined == [fmt |-> "undefined", v |-> Undefined]
NoFile == [fmt |-> "nofile", v |-> Undefined]
EmptyString == [fmt |-> "text", v |-> [k |-> "empty", id |-> 0, dbg |-> 0]]
Garbage == [fmt |-> "text", v |-> [k |-> "garbage", id |-> 0, dbg |-> 0]]
Pretty(val) == [fmt |-> "pretty2", v |-> val]
Compact(val) == [fmt |-> "compact", v |-> val]

\* JSON.stringify(value, null, 2): undefined for undefined
JSONstringify(val) == IF val = Undefined THEN JsUndefined ELSE Pretty(val)

\* JSON.parse(text): ok = FALSE when it throws SyntaxError
JSONparse(str) ==
  IF str.fmt \in {"pretty2", "compact"} THEN [ok |-> TRUE, v |-> str.v]
  ELSE [ok |-> FALSE, v |-> Undefined]

\* if (this._lastSavedStateStr): '' and undefined are falsy
Truthy(str) == str # EmptyString /\ str # JsUndefined

\* state && state.pages && state.pages.length > 0
HasPages(val) == val.k = "notes"

\* state.pages[state.currentPage] += debugMsg
AppendDebug(val) == [val EXCEPT !.dbg = @ + 1]

(* ----------------------------- inputs ---------------------------------- *)
SaveValues == {Notes(1, 0)}
LegacyValues == {Undefined, NoPages}
ExternalContents == {Compact(Notes(2, 0)), Garbage}

(* ------------------------- workspace identity -------------------------- *)
\* Strings that _getWorkspaceHash works on are sequences of characters.
AuthorityChars == {"a", "b", "+"}
Authorities == UNION {[1..n -> AuthorityChars] : n \in 0..MaxAuthority}
Paths == {<<"/", "p">>, <<"/", "q">>}
Uris == [authority : Authorities, path : Paths]

\* workspaceFolders[0].uri of a folder on the local disk, and the absence of
\* a workspace folder
LocalUri == [authority |-> <<>>, path |-> <<"/", "p">>]
NoUri == [authority |-> <<>>, path |-> <<>>]
Global == <<"g", "l", "o", "b", "a", "l">>

\* s.indexOf(ch): the 0-based position of the first ch in s, -1 if none
IndexOf(s, ch) ==
  IF \E i \in 1..Len(s) : s[i] = ch
    THEN (CHOOSE i \in 1..Len(s) :
            s[i] = ch /\ \A j \in 1..(i - 1) : s[j] # ch) - 1
    ELSE -1

\* s.substring(start)
Substring(s, start) == SubSeq(s, start + 1, Len(s))

\* crypto.createHash('md5').update(s).digest('hex'): a digest, equal for
\* equal strings and different for the different strings considered here
Md5(s) == [md5 |-> s]
NoIdentity == [md5 |-> <<>>]

\* lines 129-133 with lastIndexOf in the place of indexOf
NormalizeAuthorityLast(authority) ==
  LET plusIndex == IF \E i \in 1..Len(authority) : authority[i] = "+"
                     THEN (CHOOSE i \in 1..Len(authority) :
                             /\ authority[i] = "+"
                             /\ \A j \in (i + 1)..Len(authority) :
                                  authority[j] # "+") - 1
                     ELSE -1
  IN IF plusIndex # -1 THEN Substring(authority, plusIndex + 1)
     ELSE authority

\* let normalizedAuthority = uri.authority; ... substring(plusIndex + 1)
NormalizeAuthority(authority) ==
  LET plusIndex == IndexOf(authority, "+")
  IN IF plusIndex # -1 THEN Substring(authority, plusIndex + 1)
     ELSE authority

\* the value _getWorkspaceHash() returns
WorkspaceHash(hasFolders, u) ==
  Md5(IF hasFolders THEN NormalizeAuthority(u.authority) \o u.path
      ELSE Global)

(* ------------------------------ state ---------------------------------- *)
VARIABLES
  hasWorkspace,        \* vscode.workspace.workspaceFolders is non-empty
  uri,                 \* workspaceFolders[0].uri
  identity,            \* what the last call of _getWorkspaceHash returned
  setting,             \* the user's vaultPath setting
  config,              \* this.config.vaultPath (snapshot taken by getConfig())
  view,                \* this._view is set
  initPending,         \* 'init' messages the webview will send
  dirExists,           \* which vault directories exist
  files,               \* content of notes_<hash>.json in each directory
  lastSavedStateStr,   \* this._lastSavedStateStr
  fileWatcher,         \* directory of the handle in this._fileWatcher
  handles,             \* number of open fs.watch handles per directory
  events,              \* pending events naming the vault file, per directory
  timers,              \* number of pending delayed callbacks
  posted,              \* messages posted to the webview by the last step
  errorShown,          \* the last step called showErrorMessage
  lastOp,              \* the last step: operation, result, argument
  savedBy,             \* the file's content is what a saveState wrote
  burst,               \* watcher callbacks since one external modification
  peer                 \* a second editor session on the same vault file

vars == <<hasWorkspace, uri, identity, setting, config, view, initPending,
          dirExists, files, lastSavedStateStr, fileWatcher, handles, events,
          timers, posted, errorShown, lastOp, savedBy, burst, peer>>

NoBurst == [on |-> FALSE, dir |-> NoDir, seen |-> 0, loads |-> 0, val |-> Undefined]
Op(o, r, a) == [op |-> o, res |-> r, arg |-> a, closed |-> 0]
LoadState(val) == [type |-> "loadState", value |-> val]

\* postMessage({ type: 'loadState', ... }) with the state the page sent with
\* its last message in the place of the one just read or written
PostLoadStateStale(val) ==
  IF view THEN <<LoadState(lastOp.arg)>> ELSE <<>>

\* this._view?.webview.postMessage({ type: 'loadState', value })
PostLoadState(val) == IF view THEN <<LoadState(val)>> ELSE <<>>

\* _getVaultDir()
GetVaultDir(cfg) == IF cfg # "" THEN cfg ELSE HomeVault

Min(a, b) == IF a < b THEN a ELSE b

\* setTimeout(() => {...}, 2000) inside _getWorkspaceHash
SetTimeout(tm) == IF hasWorkspace THEN tm + 1 ELSE tm

CanSchedule == ~hasWorkspace \/ timers < MaxTimers

\* the pending callbacks after one has run, had it been given to setInterval
AfterInterval(tm) == tm

\* the pending callbacks after one has run: setTimeout runs it once
AfterTimeout(tm) == tm - 1

\* the events fs.watch queues for a modification of the vault file in dir
Notify(ev, h, dir, n) ==
  IF h[dir] > 0 THEN [ev EXCEPT ![dir] = Min(@ + n, MaxEvents)] ELSE ev

\* The second session: whether its watcher is open, its _lastSavedStateStr,
\* the events pending for its watcher, whether a writeFileSync of one of its
\* saves has truncated the file and not yet written it (before: the content
\* it replaces), and the messages its last step posted to its webview.
NoPeer == [watching |-> FALSE, cache |-> EmptyString, events |-> 0,
           writing |-> FALSE, before |-> NoFile, posted |-> <<>>]

\* the vault directory of the second session: the settings are the user's
PeerDir == GetVaultDir(setting)

\* the event the second session's fs.watch queues for a modification of the
\* vault file in dir
NotifyPeer(p, dir) ==
  IF p.watching /\ dir = PeerDir
    THEN [p EXCEPT !.events = Min(@ + 1, MaxEvents)]
    ELSE p

\* _startWatching(vaultFilePath) without the close of the previous handle
StartWatchingNoClose(w, h, ev, dir, watchFails) ==
  IF watchFails
    THEN [fileWatcher |-> NoDir, handles |-> h, events |-> ev, closed |-> 0]
    ELSE [fileWatcher |-> dir, handles |-> [h EXCEPT ![dir] = @ + 1],
          events |-> ev, closed |-> 0]

\* _startWatching(vaultFilePath)
StartWatching(w, h, ev, dir, watchFails) ==
  LET h1 == IF w # NoDir THEN [h EXCEPT ![w] = @ - 1] ELSE h
      ev1 == IF w # NoDir /\ h1[w] = 0 THEN [ev EXCEPT ![w] = 0] ELSE ev
  IN IF watchFails
       THEN [fileWatcher |-> NoDir, handles |-> h1, events |-> ev1,
             closed |-> IF w # NoDir THEN 1 ELSE 0]
       ELSE [fileWatcher |-> dir, handles |-> [h1 EXCEPT ![dir] = @ + 1],
             events |-> ev1, closed |-> IF w # NoDir THEN 1 ELSE 0]

\* if (fs.existsSync(vaultFilePath)) of 'init', taken also for a file that
\* does not parse
LoadsFromVaultIfValid(fileData) == fileData # NoFile /\ JSONparse(fileData).ok

\* if (fs.existsSync(vaultFilePath)) of 'init', never taken
LoadsFromVaultNever(fileData) == FALSE

\* if (fs.existsSync(vaultFilePath)) of 'init': load, else migrate
LoadsFromVault(fileData) == fileData # NoFile

\* if (fs.existsSync(vaultFilePath)) of the watcher, always taken
ExistsSyncAlways(fileData) == TRUE

\* if (fs.existsSync(vaultFilePath)) of the watcher
ExistsSync(fileData) == fileData # NoFile

\* if (fileData !== this._lastSavedStateStr) of the watcher, always taken
ContentChangedAlways(fileData, cache) == TRUE

\* if (fileData !== this._lastSavedStateStr) of the watcher
ContentChanged(fileData, cache) == fileData # cache

Init ==
  /\ hasWorkspace \in BOOLEAN
  /\ uri = IF hasWorkspace THEN LocalUri ELSE NoUri
  /\ identity = NoIdentity
  /\ setting \in VaultPaths
  /\ config = setting
  /\ view = FALSE
  /\ initPending = 0
  /\ dirExists = [d \in Dirs |-> FALSE]
  /\ files = [d \in Dirs |-> NoFile]
  /\ lastSavedStateStr = EmptyString
  /\ fileWatcher = NoDir
  /\ handles = [d \in Dirs |-> 0]
  /\ events = [d \in Dirs |-> 0]
  /\ timers = 0
  /\ posted = <<>>
  /\ errorShown = FALSE
  /\ lastOp = Op("none", "none", Undefined)
  /\ savedBy = [d \in Dirs |-> FALSE]
  /\ burst = NoBurst
  /\ peer = NoPeer


(* ------------------------- webview (presentation) ---------------------- *)
\* The script of the page sends one 'init' message, carrying the legacy state
\* it holds or none, each time the page is loaded or asked to re-initialise.
WebviewSendsInit == initPending > 0

\* resolveWebviewView(webviewView): the view is kept, its html is set and the
\* message and configuration listeners are registered.  The script of the page
\* then sends one 'init' message.
ResolveWebviewView ==
  /\ initPending < MaxInitPending
  /\ view' = TRUE
  /\ initPending' = initPending + 1
  /\ posted' = <<>>
  /\ errorShown' = FALSE
  /\ lastOp' = Op("resolve", "ok", Undefined)
  /\ burst' = NoBurst
  /\ UNCHANGED <<identity, peer>>
  /\ UNCHANGED <<hasWorkspace, uri, setting, config, dirExists, files,
                 lastSavedStateStr, fileWatcher, handles, events, timers,
                 savedBy>>

\* The user changes a setting of the section 'sidebar-markdown-notes'.  The
\* onDidChangeConfiguration listener exists once a view has been resolved: it
\* takes a new snapshot of the configuration, re-renders the html and posts
\* { type: 'init' } to the webview, which answers with one 'init' message.
ConfigChange(path) ==
  /\ view => initPending < MaxInitPending
  /\ setting' = path
  /\ config' = IF view THEN path ELSE config
  /\ initPending' = IF view THEN initPending + 1 ELSE initPending
  /\ posted' = <<>>
  /\ errorShown' = FALSE
  /\ lastOp' = Op("config", IF view THEN "reinit" ELSE "unheard", Undefined)
  /\ burst' = NoBurst
  /\ UNCHANGED <<identity, peer>>
  /\ UNCHANGED <<hasWorkspace, uri, view, dirExists, files, lastSavedStateStr,
                 fileWatcher, handles, events, timers, savedBy>>

(* ------------------------------ 'init' --------------------------------- *)
\* case 'init' of the message listener, with value = data.value.
\* mkdirFails, writeFails, watchFails: mkdirSync, writeFileSync, fs.watch
\* throw an I/O error when they are called.
HandleInit(value, mkdirFails, writeFails, watchFails) ==
  /\ view
  /\ WebviewSendsInit
  /\ CanSchedule
  /\ LET dir == GetVaultDir(config)
         mkdirThrows == ~dirExists[dir] /\ mkdirFails
         fileData == files[dir]
         found == LoadsFromVault(fileData)
         parsed == JSONparse(fileData)
         str == JSONstringify(value)
         writeThrows == str = JsUndefined \/ writeFails
         sw == StartWatching(fileWatcher, handles, events, dir, watchFails)
     IN /\ initPending' = initPending - 1
        /\ identity' = WorkspaceHash(hasWorkspace, uri)
        /\ timers' = SetTimeout(timers)
        /\ burst' = NoBurst
        /\ IF mkdirThrows
             THEN /\ posted' = <<>>
                  /\ errorShown' = FALSE
                  /\ lastOp' = Op("init", "mkdirThrew", value)
                  /\ UNCHANGED <<dirExists, files, lastSavedStateStr,
                                 fileWatcher, handles, events, savedBy, peer>>
             ELSE /\ dirExists' = [dirExists EXCEPT ![dir] = TRUE]
                  /\ IF found
                       THEN \* read from the vault and load into the webview
                            /\ lastSavedStateStr' = fileData
                            /\ posted' = IF parsed.ok THEN PostLoadState(parsed.v)
                                         ELSE <<>>
                            /\ errorShown' = ~parsed.ok
                            /\ lastOp' = [Op("init", IF parsed.ok THEN "loaded"
                                                     ELSE "parseError", value)
                                           EXCEPT !.closed = sw.closed]
                            /\ fileWatcher' = sw.fileWatcher
                            /\ handles' = sw.handles
                            /\ events' = sw.events
                            /\ UNCHANGED <<files, savedBy, peer>>
                       ELSE \* write the legacy state to the vault (migration)
                            /\ lastSavedStateStr' = str
                            /\ errorShown' = FALSE
                            /\ IF writeThrows
                                 THEN /\ posted' = <<>>
                                      /\ lastOp' = Op("init",
                                                      IF str = JsUndefined
                                                        THEN "typeError"
                                                        ELSE "writeThrew", value)
                                      /\ UNCHANGED <<files, fileWatcher, handles,
                                                     events, savedBy, peer>>
                                 ELSE /\ files' = [files EXCEPT ![dir] = str]
                                      /\ savedBy' = [savedBy EXCEPT ![dir] = FALSE]
                                      /\ peer' = NotifyPeer(peer, dir)
                                      /\ posted' = PostLoadState(value)
                                      /\ lastOp' = [Op("init", "migrated", value)
                                                     EXCEPT !.closed = sw.closed]
                                      /\ fileWatcher' = sw.fileWatcher
                                      /\ handles' = sw.handles
                                      /\ events' = sw.events
  /\ UNCHANGED <<hasWorkspace, uri, setting, config, view>>

(* ---------------------------- 'saveState' ------------------------------ *)
\* case 'saveState' of the message listener, with value = data.value
HandleSaveState(value, mkdirFails, writeFails) ==
  /\ view
  /\ CanSchedule
  /\ LET dir == GetVaultDir(config)
         mkdirThrows == ~dirExists[dir] /\ mkdirFails
         str == JSONstringify(value)
         writeThrows == str = JsUndefined \/ writeFails
     IN /\ identity' = WorkspaceHash(hasWorkspace, uri)
        /\ timers' = SetTimeout(timers)
        /\ posted' = <<>>
        /\ errorShown' = FALSE
        /\ burst' = NoBurst
        /\ IF mkdirThrows
             THEN /\ lastOp' = Op("saveState", "mkdirThrew", Undefined)
                  /\ UNCHANGED <<dirExists, files, lastSavedStateStr, events,
                                 savedBy, peer>>
             ELSE /\ dirExists' = [dirExists EXCEPT ![dir] = TRUE]
                  /\ lastSavedStateStr' = str
                  /\ IF writeThrows
                       THEN /\ lastOp' = Op("saveState",
                                            IF str = JsUndefined
                                              THEN "typeError"
                                              ELSE "writeThrew", Undefined)
                            /\ UNCHANGED <<files, events, savedBy, peer>>
                       ELSE /\ files' = [files EXCEPT ![dir] = str]
                            /\ savedBy' = [savedBy EXCEPT ![dir] = TRUE]
                            /\ peer' = NotifyPeer(peer, dir)
                            /\ events' = Notify(events, handles, dir, 1)
                            /\ lastOp' = Op("saveState", "saved", Undefined)
  /\ UNCHANGED <<hasWorkspace, uri, setting, config, view, initPending, fileWatcher,
                 handles>>


(* ------------------------- fs.watch callback --------------------------- *)
\* The listener given to fs.watch(vaultDir, ...) by _startWatching(dir/file),
\* run for one pending event whose filename is the vault file's name.
WatchCallback(dir) ==
  /\ handles[dir] > 0
  /\ events[dir] > 0
  /\ LET fileData == files[dir]
         exists == ExistsSync(fileData)
         differs == exists /\ ContentChanged(fileData, lastSavedStateStr)
         parsed == JSONparse(fileData)
         delivers == differs /\ parsed.ok
     IN /\ events' = [events EXCEPT ![dir] = @ - 1]
        /\ lastSavedStateStr' = IF differs THEN fileData ELSE lastSavedStateStr
        /\ posted' = IF delivers THEN PostLoadState(parsed.v) ELSE <<>>
        /\ lastOp' = Op("watch",
                        IF ~exists THEN "absent"
                        ELSE IF ~differs THEN "unchanged"
                        ELSE IF parsed.ok THEN "delivered" ELSE "parseThrew",
                        Undefined)
        /\ burst' = IF burst.on
                      THEN [on |-> TRUE, dir |-> burst.dir,
                            seen |-> burst.seen + 1,
                            loads |-> burst.loads + Len(posted'),
                            val |-> IF delivers THEN parsed.v ELSE burst.val]
                      ELSE NoBurst
  /\ errorShown' = FALSE
  /\ UNCHANGED <<identity, peer>>
  /\ UNCHANGED <<hasWorkspace, uri, setting, config, view, initPending, dirExists,
                 files, fileWatcher, handles, timers, savedBy>>

\* The same listener run for an event that names another file of the directory
WatchCallbackOther(dir) ==
  /\ handles[dir] > 0
  /\ posted' = <<>>
  /\ errorShown' = FALSE
  /\ lastOp' = Op("watch", "otherFile", Undefined)
  /\ UNCHANGED <<identity, peer>>
  /\ UNCHANGED <<hasWorkspace, uri, setting, config, view, initPending, dirExists,
                 files, lastSavedStateStr, fileWatcher, handles, events, timers,
                 savedBy, burst>>

(* --------------------- the 2000 ms delayed callback -------------------- *)
\* The function given to setTimeout by _getWorkspaceHash.  uriString is the
\* one captured, the vault directory is read when the callback runs.
DelayedCallback(writeFails) ==
  /\ timers > 0
  /\ LET parsed == JSONparse(lastSavedStateStr)
         appends == Truthy(lastSavedStateStr) /\ parsed.ok /\ HasPages(parsed.v)
         state == AppendDebug(parsed.v)
         str == JSONstringify(state)
         dir == GetVaultDir(config)
         writeThrows == writeFails \/ ~dirExists[dir]
     IN /\ appends => parsed.v.dbg < MaxDebug
        /\ timers' = AfterTimeout(timers)
        /\ IF appends
             THEN /\ lastSavedStateStr' = str
                  /\ IF writeThrows
                       THEN /\ posted' = <<>>
                            /\ lastOp' = Op("timer", "writeThrew", Undefined)
                            /\ UNCHANGED <<files, events, savedBy, peer>>
                       ELSE /\ files' = [files EXCEPT ![dir] = str]
                            /\ savedBy' = [savedBy EXCEPT ![dir] = FALSE]
                            /\ peer' = NotifyPeer(peer, dir)
                            /\ events' = Notify(events, handles, dir, 1)
                            /\ posted' = PostLoadState(state)
                            /\ lastOp' = Op("timer", "appended", Undefined)
             ELSE /\ posted' = <<>>
                  /\ lastOp' = Op("timer", "skipped", Undefined)
                  /\ UNCHANGED <<files, lastSavedStateStr, events, savedBy,
                                 peer>>
  /\ errorShown' = FALSE
  /\ burst' = NoBurst
  /\ UNCHANGED identity
  /\ UNCHANGED <<hasWorkspace, uri, setting, config, view, initPending, dirExists,
                 fileWatcher, handles>>

(* --------------------------- other processes --------------------------- *)
\* Another process replaces the content of the vault file in dir; fs.watch
\* reports the modification with n events.
ExternalWrite(dir, content, n) ==
  /\ dirExists[dir]
  /\ files' = [files EXCEPT ![dir] = content]
  /\ savedBy' = [savedBy EXCEPT ![dir] = FALSE]
  /\ events' = Notify(events, handles, dir, n)
  /\ burst' = IF /\ handles[dir] > 0
                 /\ JSONparse(content).ok
                 /\ content # lastSavedStateStr
                THEN [on |-> TRUE, dir |-> dir, seen |-> 0, loads |-> 0,
                      val |-> Undefined]
                ELSE NoBurst
  /\ posted' = <<>>
  /\ errorShown' = FALSE
  /\ lastOp' = Op("external", "write", Undefined)
  /\ peer' = NotifyPeer(peer, dir)
  /\ UNCHANGED identity
  /\ UNCHANGED <<hasWorkspace, uri, setting, config, view, initPending, dirExists,
                 lastSavedStateStr, fileWatcher, handles, timers>>

\* Another process deletes the vault file in dir
ExternalDelete(dir) ==
  /\ files[dir] # NoFile
  /\ files' = [files EXCEPT ![dir] = NoFile]
  /\ savedBy' = [savedBy EXCEPT ![dir] = FALSE]
  /\ events' = Notify(events, handles, dir, 1)
  /\ burst' = NoBurst
  /\ posted' = <<>>
  /\ errorShown' = FALSE
  /\ lastOp' = Op("external", "delete", Undefined)
  /\ peer' = NotifyPeer(peer, dir)
  /\ UNCHANGED identity
  /\ UNCHANGED <<hasWorkspace, uri, setting, config, view, initPending, dirExists,
                 lastSavedStateStr, fileWatcher, handles, timers>>

(* -------------------------- specification ------------------------------ *)
Next ==
  \/ ResolveWebviewView
  \/ \E path \in VaultPaths : ConfigChange(path)
  \/ \E value \in LegacyValues, mkdirFails, writeFails, watchFails \in BOOLEAN :
       HandleInit(value, mkdirFails, writeFails, watchFails)
  \/ \E value \in SaveValues, mkdirFails, writeFails \in BOOLEAN :
       HandleSaveState(value, mkdirFails, writeFails)
  \/ \E dir \in Dirs : WatchCallback(dir)
  \/ \E dir \in Dirs : WatchCallbackOther(dir)
  \/ \E writeFails \in BOOLEAN : DelayedCallback(writeFails)
  \/ \E dir \in Dirs, content \in ExternalContents, n \in 1..MaxEvents :
       ExternalWrite(dir, content, n)
  \/ \E dir \in Dirs : ExternalDelete(dir)

Spec == Init /\ [][Next]_vars

\* The provider with its webview alone: views, inits, saves, the callbacks
\* they schedule and the watcher events of their writes; the setting is not
\* changed and no other process touches the vault.
NextSaves ==
  \/ ResolveWebviewView
  \/ \E value \in LegacyValues, mkdirFails, writeFails, watchFails \in BOOLEAN :
       HandleInit(value, mkdirFails, writeFails, watchFails)
  \/ \E value \in SaveValues, mkdirFails, writeFails \in BOOLEAN :
       HandleSaveState(value, mkdirFails, writeFails)
  \/ \E dir \in Dirs : WatchCallback(dir)
  \/ \E writeFails \in BOOLEAN : DelayedCallback(writeFails)

SpecSaves == Init /\ [][NextSaves]_vars


(* ------------------------------ claims --------------------------------- *)
\* C1: echo suppression.  A watcher callback for a vault file whose content
\* is still what a handled saveState wrote posts no loadState and leaves
\* _lastSavedStateStr unchanged, in every interleaving of saves and watcher
\* events (specification SpecSaves).
C1_EchoSuppression ==
  [][\A dir \in Dirs :
       (lastOp'.op = "watch" /\ WatchCallback(dir) /\ savedBy[dir]) =>
         (posted' = <<>> /\ lastSavedStateStr' = lastSavedStateStr)]_vars

\* C2: once another process has replaced the watched vault file by valid JSON
\* that differs from the cache, the watcher callbacks run for that
\* modification post exactly one loadState, with the parsed new value, and the
\* cache is the new content, however many callbacks have run.
C2_ExactlyOneLoadState ==
  (burst.on /\ burst.seen >= 1) =>
     /\ burst.loads = 1
     /\ burst.val = JSONparse(files[burst.dir]).v
     /\ lastSavedStateStr = files[burst.dir]

\* C2 witness: two callbacks have run for one external modification and one
\* loadState was posted
C2_Witness ==
  /\ burst.on
  /\ burst.seen = 2
  /\ burst.loads = 1
  /\ burst.val = Notes(2, 0)
  /\ files[burst.dir] = Compact(Notes(2, 0))

\* C3: a watcher callback that reads a vault file that is not valid JSON
\* posts no loadState and leaves _lastSavedStateStr as it was.
C3_InvalidJsonLeavesCache ==
  [][\A dir \in Dirs :
       (/\ lastOp'.op = "watch"
        /\ WatchCallback(dir)
        /\ files[dir] # NoFile
        /\ ~JSONparse(files[dir]).ok) =>
         (posted' = <<>> /\ lastSavedStateStr' = lastSavedStateStr)]_vars


\* The last step was the handling of an 'init' in which mkdirSync or
\* writeFileSync failed with an I/O error.
InitIOError == lastOp.res \in {"mkdirThrew", "writeThrew"}

\* C4: migration happens at most once per vault file.  An init with a legacy
\* state L that finds no vault file (and meets no I/O error) creates the file
\* with the serialization of L, which parses back to L, and posts
\* loadState(L); an init that finds the file leaves every vault file as it
\* is, whatever legacy state it carries, and posts the file's parsed content
\* when it parses.
C4_MigrationOnce ==
  [][lastOp'.op = "init" =>
       LET dir == GetVaultDir(config)
           value == lastOp'.arg
       IN /\ (files[dir] # NoFile) =>
               /\ files' = files
               /\ JSONparse(files[dir]).ok =>
                    posted' = <<LoadState(JSONparse(files[dir]).v)>>
          /\ (files[dir] = NoFile /\ value # Undefined /\ ~InitIOError') =>
               /\ files' = [files EXCEPT ![dir] = JSONstringify(value)]
               /\ JSONparse(files'[dir]) = [ok |-> TRUE, v |-> value]
               /\ posted' = <<LoadState(value)>>]_vars

\* C4 witness: a file created by migration (only a migration writes a state
\* without pages) was found by a later init that carried no legacy state, was
\* delivered and is still there
C4_Witness ==
  /\ lastOp.op = "init" /\ lastOp.res = "loaded" /\ lastOp.arg = Undefined
  /\ files[GetVaultDir(config)] = Pretty(NoPages)
  /\ posted = <<LoadState(NoPages)>>

\* C5: computing the workspace identity is a pure query: the callback it
\* schedules writes no vault file, leaves _lastSavedStateStr unchanged and
\* posts no loadState.
C5_IdentityIsPure ==
  [][\A writeFails \in BOOLEAN :
       (lastOp'.op = "timer" /\ DelayedCallback(writeFails)) =>
         /\ files' = files
         /\ lastSavedStateStr' = lastSavedStateStr
         /\ posted' = <<>>]_vars

\* C6: after the vault directory setting changed from A to B, with a watcher
\* open on A and no vault file in B, the init that follows (no I/O error)
\* closes the handle on A, opens one on B and loads or migrates against B.
C6_ConfigChangeReinit ==
  [][\A value \in LegacyValues :
       (/\ lastOp.op = "config"
        /\ lastOp'.op = "init"
        /\ HandleInit(value, FALSE, FALSE, FALSE)
        /\ fileWatcher # NoDir
        /\ fileWatcher # GetVaultDir(config)
        /\ files[GetVaultDir(config)] = NoFile) =>
         /\ fileWatcher' = GetVaultDir(config)
         /\ handles' = [d \in Dirs |-> IF d = GetVaultDir(config) THEN 1 ELSE 0]
         /\ lastOp'.closed = 1
         /\ lastOp'.res \in {"loaded", "migrated"}]_vars

\* C7: at most one fs.watch handle is open, it is the one in _fileWatcher,
\* and events are pending only for an open handle.
C7_OneWatcher ==
  /\ \A d, e \in Dirs : (handles[d] > 0 /\ handles[e] > 0) => d = e
  /\ \A d \in Dirs : handles[d] = IF d = fileWatcher THEN 1 ELSE 0
  /\ \A d \in Dirs : events[d] > 0 => handles[d] > 0

\* C7 witness: an init has closed the handle that was open and opened the
\* handle that is now the only one
C7_Witness ==
  /\ lastOp.op = "init"
  /\ lastOp.closed = 1
  /\ fileWatcher = CustomVault
  /\ handles = [d \in Dirs |-> IF d = CustomVault THEN 1 ELSE 0]

\* C8: a saveState or a migration whose file write fails leaves
\* _lastSavedStateStr as it was before the operation.
C8_FailedWriteKeepsCache ==
  [][/\ \A value \in SaveValues :
          (lastOp'.op = "saveState" /\ HandleSaveState(value, FALSE, TRUE)) =>
            lastSavedStateStr' = lastSavedStateStr
     /\ \A value \in LegacyValues \ {Undefined}, watchFails \in BOOLEAN :
          (/\ lastOp'.op = "init"
           /\ files[GetVaultDir(config)] = NoFile
           /\ HandleInit(value, FALSE, TRUE, watchFails)) =>
            lastSavedStateStr' = lastSavedStateStr]_vars

\* C9: an init without legacy state that finds no vault file (no I/O error)
\* writes a state as the first content of the vault file, posts that state
\* and ends with a watcher on the vault directory.
C9_InitWithoutLegacy ==
  [][(/\ lastOp'.op = "init"
      /\ files[GetVaultDir(config)] = NoFile
      /\ HandleInit(Undefined, FALSE, FALSE, FALSE)) =>
       LET dir == GetVaultDir(config)
       IN /\ files'[dir] # NoFile
          /\ JSONparse(files'[dir]).ok
          /\ posted' = <<LoadState(JSONparse(files'[dir]).v)>>
          /\ fileWatcher' = dir]_vars

\* C10: an init that finds a vault file that is not valid JSON shows the
\* error, leaves every vault file as it is and posts no loadState; and the
\* delayed callback that finds in _lastSavedStateStr the text that does not
\* parse (as that init left it) writes no file and posts nothing.
C10_ParseErrorLeavesFile ==
  [][/\ (/\ lastOp'.op = "init"
         /\ files[GetVaultDir(config)] # NoFile
         /\ ~JSONparse(files[GetVaultDir(config)]).ok) =>
          /\ files' = files
          /\ posted' = <<>>
          /\ errorShown'
          /\ lastSavedStateStr' = files[GetVaultDir(config)]
     /\ (lastOp'.op = "timer" /\ ~JSONparse(lastSavedStateStr).ok) =>
          /\ files' = files
          /\ posted' = <<>>
          /\ lastSavedStateStr' = lastSavedStateStr]_vars

\* C10 witness: the init has shown the parse error, the file that does not
\* parse is still there, and a delayed callback of that init is pending
C10_Witness ==
  /\ lastOp.op = "init" /\ lastOp.res = "parseError"
  /\ errorShown
  /\ files[GetVaultDir(config)] = Garbage
  /\ posted = <<>>
  /\ timers > 0

(* ------------------- the workspace identity alone ---------------------- *)
\* Every workspace uri whose authority has at most MaxAuthority characters,
\* or no workspace folder; nothing else has happened yet.
InitIdentity ==
  /\ hasWorkspace \in BOOLEAN
  /\ uri \in IF hasWorkspace THEN Uris ELSE {NoUri}
  /\ identity = NoIdentity
  /\ setting = ""
  /\ config = setting
  /\ view = FALSE
  /\ initPending = 0
  /\ dirExists = [d \in Dirs |-> FALSE]
  /\ files = [d \in Dirs |-> NoFile]
  /\ lastSavedStateStr = EmptyString
  /\ fileWatcher = NoDir
  /\ handles = [d \in Dirs |-> 0]
  /\ events = [d \in Dirs |-> 0]
  /\ timers = 0
  /\ posted = <<>>
  /\ errorShown = FALSE
  /\ lastOp = Op("none", "none", Undefined)
  /\ savedBy = [d \in Dirs |-> FALSE]
  /\ burst = NoBurst
  /\ peer = NoPeer

\* One call of _getWorkspaceHash(): it returns the identity and, with a
\* workspace folder, schedules the delayed callback.
ComputeIdentity ==
  /\ CanSchedule
  /\ identity' = WorkspaceHash(hasWorkspace, uri)
  /\ timers' = SetTimeout(timers)
  /\ posted' = <<>>
  /\ errorShown' = FALSE
  /\ lastOp' = Op("identity", "ok", Undefined)
  /\ burst' = NoBurst
  /\ UNCHANGED <<hasWorkspace, uri, setting, config, view, initPending,
                 dirExists, files, lastSavedStateStr, fileWatcher, handles,
                 events, savedBy, peer>>

NextIdentity ==
  \/ ComputeIdentity
  \/ \E writeFails \in BOOLEAN : DelayedCallback(writeFails)

SpecIdentity == InitIdentity /\ [][NextIdentity]_vars

\* the authority contains a '+'
HasPlus(s) == \E i \in 1..Len(s) : s[i] = "+"

\* what follows the last '+' of s, what follows the first '+' of s
AfterLastPlus(s) ==
  LET k == CHOOSE k \in 1..Len(s) :
             s[k] = "+" /\ \A j \in (k + 1)..Len(s) : s[j] # "+"
  IN SubSeq(s, k + 1, Len(s))

AfterFirstPlus(s) ==
  LET k == CHOOSE k \in 1..Len(s) :
             s[k] = "+" /\ \A j \in 1..(k - 1) : s[j] # "+"
  IN SubSeq(s, k + 1, Len(s))

\* C11 as stated: the identity computed for a uri whose authority contains
\* a '+' is the identity of every uri with the same path whose authority
\* contains a '+' and has the same substring after its last '+'.
C11_IdentityAfterLastPlus ==
  (identity # NoIdentity /\ hasWorkspace /\ HasPlus(uri.authority)) =>
    \A other \in Authorities :
      (HasPlus(other) /\ AfterLastPlus(other) = AfterLastPlus(uri.authority))
        => WorkspaceHash(TRUE, [authority |-> other, path |-> uri.path])
             = identity

\* C11 amended: the identity computed for a uri whose authority contains a
\* '+' is the identity of every uri with the same path whose authority
\* contains a '+' and has the same substring after its first '+'; it differs
\* from the identity of the uris whose substring after the first '+' or whose
\* path differs.
C11_IdentityAfterFirstPlus ==
  (identity # NoIdentity /\ hasWorkspace /\ HasPlus(uri.authority)) =>
    \A other \in Authorities, p \in Paths :
      HasPlus(other) =>
        ((WorkspaceHash(TRUE, [authority |-> other, path |-> p]) = identity)
          <=> (/\ AfterFirstPlus(other) = AfterFirstPlus(uri.authority)
               /\ p = uri.path))

\* C11 witness: the identity was computed for an authority whose prefix is
\* followed by two '+', and it is the digest of what follows the first one
C11_Witness ==
  /\ uri.authority = <<"a", "+", "+">>
  /\ identity = Md5(<<"+">> \o uri.path)
  /\ WorkspaceHash(TRUE, [authority |-> <<"b", "+", "+">>, path |-> uri.path])
       = identity

\* C12: round trip.  In SpecSaves no other process writes the vault file and
\* only a saveState writes a state with pages, so a vault file that holds the
\* pages of s was written because saveState(s) was handled.  The init that
\* then follows for the same directory and workspace posts loadState(s) and
\* the file is the serialization of s.
C12_RoundTrip ==
  [][\A s \in SaveValues :
       (/\ lastOp'.op = "init"
        /\ HasPages(files[GetVaultDir(config)].v)
        /\ files[GetVaultDir(config)].v.id = s.id) =>
         /\ posted' = <<LoadState(s)>>
         /\ files'[GetVaultDir(config)] = JSONstringify(s)]_vars

(* --------------------------- panel disposal ---------------------------- *)
\* The editor disposes the WebviewView (the panel is closed or hidden
\* without retainContextWhenHidden).  resolveWebviewView registers no
\* onDidDispose listener and deactivate() is empty: no code of the provider
\* runs.  The page is gone and sends no further message; _view, the watcher
\* and the pending callbacks stay as they are.
Dispose ==
  /\ view
  /\ initPending' = 0
  /\ posted' = <<>>
  /\ errorShown' = FALSE
  /\ lastOp' = Op("dispose", "ok", Undefined)
  /\ burst' = NoBurst
  /\ UNCHANGED <<hasWorkspace, uri, identity, setting, config, view,
                 dirExists, files, lastSavedStateStr, fileWatcher, handles,
                 events, timers, savedBy, peer>>

\* The provider with its webview, other processes writing the vault files,
\* and the disposal of the panel.
NextDispose ==
  \/ NextSaves
  \/ \E dir \in Dirs, content \in ExternalContents, n \in 1..MaxEvents :
       ExternalWrite(dir, content, n)
  \/ Dispose

SpecDispose == Init /\ [][NextDispose]_vars

\* C13: the disposal of the panel closes the watcher (none is open after
\* it), and a watcher callback that runs after the disposal, before any init,
\* leaves _lastSavedStateStr unchanged and posts no loadState.
C13_TeardownClosesWatcher ==
  [][/\ lastOp'.op = "dispose" =>
          (fileWatcher' = NoDir /\ \A d \in Dirs : handles'[d] = 0)
     /\ (lastOp.op = "dispose" /\ lastOp'.op = "watch") =>
          (lastSavedStateStr' = lastSavedStateStr /\ posted' = <<>>)]_vars

(* ----------------------- a second editor session ----------------------- *)
\* Another window of the editor runs the same provider on the same workspace
\* and vault directory.  Its writeFileSync is seen from the first session as
\* the two steps it consists of: the file is opened with truncation, then the
\* content is written and the file closed.
PeerSaveValues == {Notes(2, 0)}

\* case 'init' in the second session, whose page holds the legacy state {}
PeerInit ==
  /\ ~peer.watching
  /\ LET dir == PeerDir
         fileData == files[dir]
         parsed == JSONparse(fileData)
         str == JSONstringify(NoPages)
     IN /\ dirExists' = [dirExists EXCEPT ![dir] = TRUE]
        /\ IF LoadsFromVault(fileData)
             THEN /\ peer' = [peer EXCEPT
                                !.watching = TRUE,
                                !.cache = fileData,
                                !.events = 0,
                                !.posted = IF parsed.ok
                                             THEN <<LoadState(parsed.v)>>
                                             ELSE <<>>]
                  /\ UNCHANGED <<files, events, savedBy>>
             ELSE /\ files' = [files EXCEPT ![dir] = str]
                  /\ savedBy' = [savedBy EXCEPT ![dir] = FALSE]
                  /\ events' = Notify(events, handles, dir, 1)
                  /\ peer' = [peer EXCEPT
                                !.watching = TRUE,
                                !.cache = str,
                                !.events = 0,
                                !.posted = <<LoadState(NoPages)>>]
  /\ posted' = <<>>
  /\ errorShown' = FALSE
  /\ lastOp' = Op("peer", "init", Undefined)
  /\ burst' = NoBurst
  /\ UNCHANGED <<hasWorkspace, uri, identity, setting, config, view,
                 initPending, lastSavedStateStr, fileWatcher, handles, timers>>

\* case 'saveState' in the second session up to the open of writeFileSync:
\* the cache is assigned and the file is truncated
PeerSaveBegin(value) ==
  /\ peer.watching
  /\ ~peer.writing
  /\ LET dir == PeerDir
         str == JSONstringify(value)
     IN /\ files' = [files EXCEPT ![dir] = EmptyString]
        /\ savedBy' = [savedBy EXCEPT ![dir] = FALSE]
        /\ events' = Notify(events, handles, dir, 1)
        /\ peer' = [NotifyPeer(peer, dir) EXCEPT
                      !.cache = str,
                      !.writing = TRUE,
                      !.before = files[dir],
                      !.posted = <<>>]
  /\ posted' = <<>>
  /\ errorShown' = FALSE
  /\ lastOp' = Op("peer", "saveBegin", Undefined)
  /\ burst' = NoBurst
  /\ UNCHANGED <<hasWorkspace, uri, identity, setting, config, view,
                 initPending, dirExists, lastSavedStateStr, fileWatcher,
                 handles, timers>>

\* the rest of that writeFileSync: the content is written from offset 0 and
\* the file closed.  mixed: the first session wrote a longer content in
\* between, whose end stays in the file.
PeerSaveEnd(mixed) ==
  /\ peer.writing
  /\ mixed => files[PeerDir] # EmptyString
  /\ LET dir == PeerDir
     IN /\ files' = [files EXCEPT ![dir] = IF mixed THEN Garbage ELSE peer.cache]
        /\ savedBy' = [savedBy EXCEPT ![dir] = FALSE]
        /\ events' = Notify(events, handles, dir, 1)
        /\ peer' = [NotifyPeer(peer, dir) EXCEPT
                      !.writing = FALSE,
                      !.before = NoFile]
  /\ posted' = <<>>
  /\ errorShown' = FALSE
  /\ lastOp' = Op("peer", "saveEnd", Undefined)
  /\ burst' = NoBurst
  /\ UNCHANGED <<hasWorkspace, uri, identity, setting, config, view,
                 initPending, dirExists, lastSavedStateStr, fileWatcher,
                 handles, timers>>

\* the fs.watch listener of the second session, for one pending event; it
\* does not run inside the session's own writeFileSync
PeerWatchCallback ==
  /\ peer.watching
  /\ peer.events > 0
  /\ ~peer.writing
  /\ LET fileData == files[PeerDir]
         exists == fileData # NoFile
         differs == exists /\ ContentChanged(fileData, peer.cache)
         parsed == JSONparse(fileData)
     IN peer' = [peer EXCEPT
                   !.events = @ - 1,
                   !.cache = IF differs THEN fileData ELSE @,
                   !.posted = IF differs /\ parsed.ok
                                THEN <<LoadState(parsed.v)>> ELSE <<>>]
  /\ posted' = <<>>
  /\ errorShown' = FALSE
  /\ lastOp' = Op("peer", "watch", Undefined)
  /\ burst' = NoBurst
  /\ UNCHANGED <<hasWorkspace, uri, identity, setting, config, view,
                 initPending, dirExists, files, lastSavedStateStr, fileWatcher,
                 handles, events, timers, savedBy>>

NextSessions ==
  \/ NextSaves
  \/ PeerInit
  \/ \E value \in PeerSaveValues : PeerSaveBegin(value)
  \/ \E mixed \in BOOLEAN : PeerSaveEnd(mixed)
  \/ PeerWatchCallback

SpecSessions == Init /\ [][NextSessions]_vars

\* Both sessions watch the vault file the first session saves to
BothWatching ==
  /\ peer.watching
  /\ fileWatcher = PeerDir
  /\ GetVaultDir(config) = PeerDir

\* No event is pending for either watcher, no delayed callback is pending
\* and no write is in progress
Quiescent ==
  /\ \A d \in Dirs : events[d] = 0
  /\ peer.events = 0
  /\ timers = 0
  /\ ~peer.writing

\* C14: with both sessions watching the same vault file, once every watcher
\* event of the writes has been delivered and nothing is pending, the cache
\* of each session is the content of the file.
C14_Reconciled ==
  (BothWatching /\ Quiescent) =>
    /\ lastSavedStateStr = files[PeerDir]
    /\ peer.cache = files[PeerDir]

\* C15: a watcher callback of the first session that reads the vault file
\* while a save of the second session is in progress reads the content the
\* file had before that save or the content the save writes.
C15_SaveAtomicForReaders ==
  [][(/\ lastOp'.op = "watch"
      /\ peer.writing
      /\ WatchCallback(PeerDir)) =>
       files[PeerDir] \in {peer.before, peer.cache}]_vars

\* The callbacks the provider still has to run on its own: every pending
\* delayed callback, which may write the file once and so queue watcher
\* events, and every pending watcher event.
PendingWork ==
  (MaxEvents + 1) * timers + events[HomeVault] + events[CustomVault]

\* C16: no feedback loop.  Every watcher callback for the vault file and
\* every delayed callback strictly decreases PendingWork, which is never
\* negative, and a watcher callback writes no file: from any state the
\* provider on its own runs at most PendingWork callbacks, hence finitely
\* many writes and loadStates, and then has none left to run.
C16_NoFeedbackLoop ==
  [][(lastOp'.op \in {"watch", "timer"} /\ lastOp'.res # "otherFile") =>
       /\ PendingWork' < PendingWork
       /\ PendingWork' >= 0
       /\ lastOp'.op = "watch" => files' = files]_vars

\* C16 witness: a delayed callback has written the file, the watcher events
\* of its write have been handled and no callback is left to run
C16_Witness ==
  /\ lastOp.op = "watch"
  /\ PendingWork = 0
  /\ files[GetVaultDir(config)] = Pretty(Notes(1, 1))
  /\ lastSavedStateStr = files[GetVaultDir(config)]

\* C17: a saveState handled before the first init (_getWorkspaceHash has not
\* been called yet and no watcher was started) writes no vault file and
\* leaves _lastSavedStateStr unchanged.
C17_SaveBeforeInit ==
  [][(/\ lastOp'.op = "saveState"
      /\ identity = NoIdentity
      /\ fileWatcher = NoDir) =>
       /\ files' = files
       /\ lastSavedStateStr' = lastSavedStateStr]_vars

\* C18: a watcher callback for an event that names another file of the vault
\* directory, or that runs when the vault file does not exist, leaves
\* _lastSavedStateStr unchanged and posts no loadState.
C18_WatcherFilter ==
  [][\A dir \in Dirs :
       (/\ lastOp'.op = "watch"
        /\ \/ WatchCallbackOther(dir)
           \/ WatchCallback(dir) /\ files[dir] = NoFile) =>
         /\ lastSavedStateStr' = lastSavedStateStr
         /\ posted' = <<>>]_vars

\* C18 witness: the watcher callback has run for the vault file, deleted by
\* another process, while the cache holds the content that was loaded
C18_Witness ==
  /\ lastOp.op = "watch" /\ lastOp.res = "absent"
  /\ fileWatcher # NoDir
  /\ files[fileWatcher] = NoFile
  /\ JSONparse(lastSavedStateStr).ok
  /\ posted = <<>>

\* C19: whenever a watcher is open, the directory it watches is the one in
\* which a saveState handled in that state would write the vault file.
C19_WatcherOnSavePath ==
  fileWatcher # NoDir => fileWatcher = GetVaultDir(config)

\* C20: whenever a step has posted a loadState (init load, migration,
\* watcher callback, delayed callback), _lastSavedStateStr parses and the
\* posted value is its parse.
C20_LoadStateIsCache ==
  \A i \in 1..Len(posted) :
    JSONparse(lastSavedStateStr) = [ok |-> TRUE, v |-> posted[i].value]

\* C20 witness: the delayed callback has posted the state with the appended
\* block, and the cache is its serialization
C20_Witness ==
  /\ lastOp.op = "timer"
  /\ posted = <<LoadState(Notes(1, 1))>>
  /\ lastSavedStateStr = Pretty(Notes(1, 1))

====
